---- MODULE Spec2Model ----
(***************************************************************************)
(* Conway's Game of Life on a fixed 8x8 torus (gol.c).                     *)
(*                                                                         *)
(* The program initialises current_board from a named pattern, then run()  *)
(* prints it and performs three generation steps between two static        *)
(* buffers whose roles are exchanged by swapping two pointers.             *)
(*                                                                         *)
(* Strings are sequences of character codes (the terminating NUL is        *)
(* implicit), boards are functions row -> column -> cell, memory is a      *)
(* function from buffer name to board, and standard output is a sequence   *)
(* of lines, each a sequence of character codes.                           *)
(***************************************************************************)
EXTENDS Integers, Sequences, FiniteSets, TLC

VARIABLES
    TESTING,   \* whether the build defines the TESTING macro
    argv,      \* the command line: <<program>> or <<program, pattern>>
    mem,       \* the two static buffers: current_board and next_board
    b1,        \* run(): pointer to the source buffer
    b2,        \* run(): pointer to the destination buffer
    i,         \* run(): loop counter
    out,       \* standard output, a sequence of lines
    pc,        \* position of the single thread of control
    status,    \* process exit status, -1 while the process runs
    rands,     \* history: the results of the calls of rand() made by init
    prior,     \* history: current_board as it was when init was called
    board0     \* history: current_board as it was when init returned
               \*          (before that, as it was when init was called)

vars == <<TESTING, argv, mem, b1, b2, i, out, pc, status, rands, prior, board0>>

----------------------------------------------------------------------------
(* enum { N = 8, ALIVE = 1, DEAD = 0 } *)

N == 8
ALIVE == 1
DEAD == 0

\* Number of iterations of the loop in run().
N_STEPS == 3

\* Bounds of the model: the cells in which rand() may return an odd number
\* are the first RandCells cells of a strip RandWidth columns wide that
\* starts at row N-1, column N-1 and wraps around both edges of the torus.
RandWidth == 3
RandCells == 9

Rows == 0 .. (N - 1)
Cols == 0 .. (N - 1)
Buffers == {"current_board", "next_board"}

----------------------------------------------------------------------------
(* C arithmetic *)

\* C's remainder: the quotient truncates toward zero, so the result has the
\* sign of the dividend.
CRem(a, b) == IF a >= 0 THEN a % b ELSE -((-a) % b)

----------------------------------------------------------------------------
(* Strings *)

STR_blinker == <<98, 108, 105, 110, 107, 101, 114>>
STR_toad == <<116, 111, 97, 100>>
STR_beacon == <<98, 101, 97, 99, 111, 110>>
STR_random == <<114, 97, 110, 100, 111, 109>>
STR_test == <<116, 101, 115, 116>>
STR_unknown == <<85, 110, 107, 110, 111, 119, 110, 32, 112, 97, 116, 116, 101, 114, 110, 58, 32>>
STR_usage == <<85, 115, 97, 103, 101, 58, 32>>
STR_usage_tail == <<32, 60, 112, 97, 116, 116, 101, 114, 110, 62>>
STR_prog == <<103, 111, 108>>

\* Command-line pattern names tried by the model: the five names in several
\* letter cases, names that differ from a pattern in one letter, by a
\* missing or extra last letter, and the empty string.
Names ==
    { STR_blinker, <<66, 76, 73, 78, 75, 69, 82>>, <<66, 108, 105, 110, 107, 101, 114>>,
      STR_toad, <<84, 111, 97, 100>>, <<116, 111, 97, 100, 115>>, <<116, 111, 97>>,
      STR_beacon, <<66, 69, 65, 67, 79, 78>>, <<98, 101, 97, 99, 111, 109>>,
      STR_random, <<114, 97, 110, 100, 111>>,
      STR_test, <<84, 69, 83, 84>>, <<84, 101, 83, 116>>, <<116, 101, 115, 116, 115>>,
      <<110, 111, 110, 115, 101, 110, 115, 101>>, <<>> }

\* The character at 1-based position k of a NUL-terminated string.
CharAt(s, k) == IF k <= Len(s) THEN s[k] ELSE 0

\* Mutant: no case folding.
tolower_none(c) == c

tolower(c) == IF c >= 65 /\ c <= 90 THEN c + 32 ELSE c

RECURSIVE strcasecmp_from(_, _, _)
strcasecmp_from(s1, s2, k) ==
    LET c1 == tolower(CharAt(s1, k))
        c2 == tolower(CharAt(s2, k))
    IN  IF c1 # c2 THEN c1 - c2
        ELSE IF c1 = 0 THEN 0
        ELSE strcasecmp_from(s1, s2, k + 1)

\* Mutant: only the first Len(s2) characters of s1 are compared, as
\* strncasecmp(s1, s2, strlen(s2)) does.
strcasecmp_prefix(s1, s2) ==
    IF Len(s1) > Len(s2) THEN strcasecmp_from(SubSeq(s1, 1, Len(s2)), s2, 1)
    ELSE strcasecmp_from(s1, s2, 1)

strcasecmp(s1, s2) == strcasecmp_from(s1, s2, 1)

----------------------------------------------------------------------------
(* Boards *)

life_cell(b, x, y) == b[x][y]
set_cell(b, x, y, v) == [b EXCEPT ![x][y] = v]

\* memset(board, v, sizeof(board)): every byte of the board is v.
memset(b, v) == [x \in Rows |-> [y \in Cols |-> v]]

\* A static board_t is zero-initialised.
ZeroBoard == [x \in Rows |-> [y \in Cols |-> 0]]

----------------------------------------------------------------------------
(* rand() *)

\* The number (0-based) of the call of rand() whose result cell (x, y) of
\* the board receives in random_board.
CallOf(x, y) == x * N + y

\* The calls whose result the model lets be odd.
OddCalls ==
    { CallOf((N - 1 + (k \div RandWidth)) % N, (N - 1 + (k % RandWidth)) % N) :
        k \in 0 .. (RandCells - 1) }

\* No call of rand() made.
NoDraws == [k \in 0 .. (N * N - 1) |-> 0]

\* Results of the N*N successive calls of rand(): ints from 0 to
\* RAND_MAX = 2^31 - 1, here 0 or 1 in the even calls and RAND_MAX - 1 or
\* RAND_MAX in the odd calls.
RandDraws ==
    { [k \in 0 .. (N * N - 1) |->
          (IF k % 2 = 0 THEN 0 ELSE 2147483646) + (IF k \in S THEN 1 ELSE 0)] :
        S \in SUBSET OddCalls }

----------------------------------------------------------------------------
(* Pattern initialisers; each takes and returns the value of current_board *)

\* Mutant: the result of rand() is stored as it is, not reduced modulo 2.
rand_bit_raw(v) == v

\* rand() % 2, for the result v of rand().
rand_bit(v) == CRem(v, 2)

\* The inner loop of random_board over the loop state st: the board and the
\* column reached.
RECURSIVE random_board_cols(_, _, _)
random_board_cols(st, draws, row) ==
    IF st.col >= N THEN st.b
    ELSE random_board_cols(
             [b |-> set_cell(st.b, row, st.col, rand_bit(draws[CallOf(row, st.col)])),
              col |-> st.col + 1],
             draws, row)

\* The outer loop of random_board over the loop state st: the board and the
\* row reached.
RECURSIVE random_board_rows(_, _)
random_board_rows(st, draws) ==
    IF st.row >= N THEN st.b
    ELSE random_board_rows(
             [b |-> random_board_cols([b |-> st.b, col |-> 0], draws, st.row),
              row |-> st.row + 1],
             draws)

random_board(b, draws) == random_board_rows([b |-> b, row |-> 0], draws)

\* Mutant: the board is not cleared first.
blinker_no_memset(b) == set_cell(set_cell(set_cell(b, 3, 4, 1), 4, 4, 1), 5, 4, 1)

blinker(b) ==
    LET m0 == memset(b, 0)
        m1 == set_cell(m0, 3, 4, 1)
        m2 == set_cell(m1, 4, 4, 1)
    IN  set_cell(m2, 5, 4, 1)

\* Mutant: the fourth cell is set at column 5 instead of column 2.
toad_shifted(b) ==
    LET m0 == memset(b, 0)
        m1 == set_cell(m0, 3, 3, 1)
        m2 == set_cell(m1, 3, 4, 1)
        m3 == set_cell(m2, 3, 5, 1)
        m4 == set_cell(m3, 4, 5, 1)
        m5 == set_cell(m4, 4, 3, 1)
    IN  set_cell(m5, 4, 4, 1)

toad(b) ==
    LET m0 == memset(b, 0)
        m1 == set_cell(m0, 3, 3, 1)
        m2 == set_cell(m1, 3, 4, 1)
        m3 == set_cell(m2, 3, 5, 1)
        m4 == set_cell(m3, 4, 2, 1)
        m5 == set_cell(m4, 4, 3, 1)
    IN  set_cell(m5, 4, 4, 1)

beacon(b) ==
    LET m0 == memset(b, 0)
        m1 == set_cell(m0, 1, 5, 1)
        m2 == set_cell(m1, 1, 6, 1)
        m3 == set_cell(m2, 2, 5, 1)
        m4 == set_cell(m3, 2, 6, 1)
        m5 == set_cell(m4, 3, 3, 1)
        m6 == set_cell(m5, 3, 4, 1)
        m7 == set_cell(m6, 4, 3, 1)
    IN  set_cell(m7, 4, 4, 1)

\* Mutant: the second cell is set in row 1 instead of row N-1.
test_board_row1(b) ==
    LET m0 == memset(b, 0)
        m1 == set_cell(m0, 0, 0, 1)
        m2 == set_cell(m1, 1, 0, 1)
    IN  set_cell(m2, N - 1, 1, 1)

test_board(b) ==
    LET m0 == memset(b, 0)
        m1 == set_cell(m0, 0, 0, 1)
        m2 == set_cell(m1, N - 1, 0, 1)
    IN  set_cell(m2, N - 1, 1, 1)

----------------------------------------------------------------------------
(* print_board *)

\* One row of the board: 'X' (88) for an ALIVE cell, '.' (46) otherwise.
print_row(board, row) ==
    [k \in 1 .. N |-> IF life_cell(board, row, k - 1) = ALIVE THEN 88 ELSE 46]

\* The N lines print_board writes, top row first.
print_board(board) == [k \in 1 .. N |-> print_row(board, k - 1)]

----------------------------------------------------------------------------
(* live_neighbors and generation *)

offsets ==
    << [r |-> -1, c |-> -1], [r |-> -1, c |-> 0], [r |-> -1, c |-> 1],
       [r |-> 0, c |-> -1], [r |-> 0, c |-> 1],
       [r |-> 1, c |-> -1], [r |-> 1, c |-> 0], [r |-> 1, c |-> 1] >>

\* Row and column of the k-th (0-based) neighbour visited by live_neighbors.
\* Mutant: the remainder is taken without first adding total_rows.
neighbor_r_naive(row, k, total_rows) == CRem(row + offsets[k + 1].r, total_rows)

neighbor_r(row, k, total_rows) == CRem(row + offsets[k + 1].r + total_rows, total_rows)
neighbor_c(columnn, k, total_colunmns) ==
    CRem(columnn + offsets[k + 1].c + total_colunmns, total_colunmns)

RECURSIVE live_neighbors_from(_, _, _, _, _, _, _)
live_neighbors_from(board, row, columnn, total_rows, total_colunmns, k, num_alive) ==
    IF k >= 8 THEN num_alive
    ELSE LET r == neighbor_r(row, k, total_rows)
             c == neighbor_c(columnn, k, total_colunmns)
         IN  live_neighbors_from(board, row, columnn, total_rows, total_colunmns, k + 1,
                 IF life_cell(board, r, c) = ALIVE THEN num_alive + 1 ELSE num_alive)

live_neighbors(board, row, columnn, total_rows, total_colunmns) ==
    live_neighbors_from(board, row, columnn, total_rows, total_colunmns, 0, 0)

\* Mutant: the branch for more than 3 neighbours writes nothing.
generation_cell_no_crowd(m, from, to, row, col) ==
    LET numNeighbors == live_neighbors(m[from], row, col, N, N)
    IN  IF numNeighbors < 2 THEN [m EXCEPT ![to] = set_cell(m[to], row, col, DEAD)]
        ELSE IF numNeighbors = 2
             THEN [m EXCEPT ![to] = set_cell(m[to], row, col, life_cell(m[from], row, col))]
        ELSE IF numNeighbors = 3 THEN [m EXCEPT ![to] = set_cell(m[to], row, col, ALIVE)]
        ELSE m

\* The body of generation's inner loop for one cell: memory m after the
\* write to buffer `to`, computed from buffer `from` as memory m holds it.
generation_cell(m, from, to, row, col) ==
    LET numNeighbors == live_neighbors(m[from], row, col, N, N)
    IN  IF numNeighbors < 2 THEN [m EXCEPT ![to] = set_cell(m[to], row, col, DEAD)]
        ELSE IF numNeighbors = 2
             THEN [m EXCEPT ![to] = set_cell(m[to], row, col, life_cell(m[from], row, col))]
        ELSE IF numNeighbors = 3 THEN [m EXCEPT ![to] = set_cell(m[to], row, col, ALIVE)]
        ELSE IF numNeighbors > 3 THEN [m EXCEPT ![to] = set_cell(m[to], row, col, DEAD)]
        ELSE m

\* The inner loop of generation over the loop state st: the memory and the
\* column reached. from and to name buffers of the memory, so a call with
\* from = to reads the cells it has already written.
RECURSIVE generation_cols(_, _, _, _)
generation_cols(st, from, to, row) ==
    IF st.col >= N THEN st.m
    ELSE generation_cols(
             [m |-> generation_cell(st.m, from, to, row, st.col), col |-> st.col + 1],
             from, to, row)

\* The outer loop of generation over the loop state st: the memory and the
\* row reached.
RECURSIVE generation_rows(_, _, _)
generation_rows(st, from, to) ==
    IF st.row >= N THEN st.m
    ELSE generation_rows(
             [m |-> generation_cols([m |-> st.m, col |-> 0], from, to, st.row),
              row |-> st.row + 1],
             from, to)

generation(m, from, to) == generation_rows([m |-> m, row |-> 0], from, to)

----------------------------------------------------------------------------
(* init *)

\* Mutant: the test pattern is compiled in whatever the build.
init_always_test(pattern, b, draws) ==
    IF strcasecmp(pattern, STR_blinker) = 0 THEN [ok |-> TRUE, board |-> blinker(b)]
    ELSE IF strcasecmp(pattern, STR_toad) = 0 THEN [ok |-> TRUE, board |-> toad(b)]
    ELSE IF strcasecmp(pattern, STR_beacon) = 0 THEN [ok |-> TRUE, board |-> beacon(b)]
    ELSE IF strcasecmp(pattern, STR_random) = 0
         THEN [ok |-> TRUE, board |-> random_board(b, draws)]
    ELSE IF strcasecmp(pattern, STR_test) = 0
         THEN [ok |-> TRUE, board |-> test_board(b)]
    ELSE [ok |-> FALSE, board |-> b]

\* What init leaves behind: whether it returned (ok) or called exit(1),
\* and the value of current_board.
init(pattern, b, draws) ==
    IF strcasecmp(pattern, STR_blinker) = 0 THEN [ok |-> TRUE, board |-> blinker(b)]
    ELSE IF strcasecmp(pattern, STR_toad) = 0 THEN [ok |-> TRUE, board |-> toad(b)]
    ELSE IF strcasecmp(pattern, STR_beacon) = 0 THEN [ok |-> TRUE, board |-> beacon(b)]
    ELSE IF strcasecmp(pattern, STR_random) = 0
         THEN [ok |-> TRUE, board |-> random_board(b, draws)]
    ELSE IF TESTING /\ strcasecmp(pattern, STR_test) = 0
         THEN [ok |-> TRUE, board |-> test_board(b)]
    ELSE [ok |-> FALSE, board |-> b]

\* printf("Unknown pattern: %s\n", pattern)
UnknownLine(pattern) == STR_unknown \o pattern

\* printf("Usage: %s <pattern>\n", argv[0])
UsageLine(prog) == STR_usage \o prog \o STR_usage_tail

\* The results rand() may return during init(pattern). Only random_board
\* calls rand(), so for any other pattern one sequence stands for all.
DrawsFor(pattern) ==
    IF strcasecmp(pattern, STR_random) = 0 THEN RandDraws ELSE {NoDraws}

\* A call of init from the state: on success current_board is set and control
\* goes on to run(); otherwise the message is printed and the process exits
\* with status 1.
CallInit(pattern) ==
    \E draws \in DrawsFor(pattern) :
        LET res == init(pattern, mem["current_board"], draws)
        IN  /\ rands' = draws
            /\ IF res.ok
               THEN /\ mem' = [mem EXCEPT !["current_board"] = res.board]
                    /\ board0' = res.board
                    /\ pc' = "run"
                    /\ UNCHANGED <<out, status>>
               ELSE /\ out' = Append(out, UnknownLine(pattern))
                    /\ status' = 1
                    /\ pc' = "exit"
                    /\ UNCHANGED <<mem, board0>>

----------------------------------------------------------------------------
(* The program *)

Args == {<<STR_prog>>} \cup {<<STR_prog, n>> : n \in Names}

Init ==
    /\ TESTING \in BOOLEAN
    /\ argv \in Args
    /\ mem = [b \in Buffers |-> ZeroBoard]
    /\ b1 = "unset"
    /\ b2 = "unset"
    /\ i = 0
    /\ out = <<>>
    /\ pc = "main"
    /\ status = -1
    /\ rands = NoDraws
    /\ prior = ZeroBoard
    /\ board0 = ZeroBoard

\* main up to the call of run(): the argument check and init.
Main ==
    /\ pc = "main"
    /\ IF TESTING
       THEN CallInit(STR_test)
       ELSE IF Len(argv) < 2
            THEN /\ out' = Append(out, UsageLine(argv[1]))
                 /\ status' = 1
                 /\ pc' = "exit"
                 /\ UNCHANGED <<mem, rands, board0>>
            ELSE CallInit(argv[2])
    /\ UNCHANGED <<TESTING, argv, b1, b2, i, prior>>

\* run() up to the loop: the pointers are set and the first board printed.
RunBegin ==
    /\ pc = "run"
    /\ b1' = "current_board"
    /\ b2' = "next_board"
    /\ out' = out \o print_board(mem["current_board"]) \o << <<>> >>
    /\ i' = 0
    /\ pc' = "loop"
    /\ UNCHANGED <<TESTING, argv, mem, status, rands, prior, board0>>

\* Mutant: "b1 = b2; b2 = b1" without tmp.
swap_no_tmp(p1, p2) == <<p2, p2>>

\* Mutant: the pointers are not exchanged.
swap_none(p1, p2) == <<p1, p2>>

\* The pointers after "tmp = b1; b1 = b2; b2 = tmp".
swap(p1, p2) == <<p2, p1>>

\* One iteration of the loop of run().
RunIter ==
    /\ pc = "loop"
    /\ i < N_STEPS
    /\ mem' = generation(mem, b1, b2)
    /\ out' = out \o print_board(mem'[b2]) \o << <<>> >>
    /\ b1' = swap(b1, b2)[1]
    /\ b2' = swap(b1, b2)[2]
    /\ i' = i + 1
    /\ UNCHANGED <<TESTING, argv, pc, status, rands, prior, board0>>

\* The loop ends, run() returns and main returns 0.
RunReturn ==
    /\ pc = "loop"
    /\ i >= N_STEPS
    /\ pc' = "done"
    /\ status' = 0
    /\ UNCHANGED <<TESTING, argv, mem, b1, b2, i, out, rands, prior, board0>>

Next == Main \/ RunBegin \/ RunIter \/ RunReturn

Spec == Init /\ [][Next]_vars

----------------------------------------------------------------------------
(* init called directly, as main calls it, with any name in either build   *)
(* and on a current_board that already holds a pattern.                    *)

\* Boards current_board may hold when init is called: the zero board of
\* program start, each fixed pattern, and the board random_board leaves
\* when every call of rand() returns an odd number.
PriorBoards ==
    { ZeroBoard, blinker(ZeroBoard), toad(ZeroBoard), beacon(ZeroBoard),
      test_board(ZeroBoard), [x \in Rows |-> [y \in Cols |-> ALIVE]] }

InitCalls ==
    /\ TESTING \in BOOLEAN
    /\ argv \in {<<STR_prog, n>> : n \in Names}
    /\ prior \in PriorBoards
    /\ mem = [b \in Buffers |-> IF b = "current_board" THEN prior ELSE ZeroBoard]
    /\ b1 = "unset"
    /\ b2 = "unset"
    /\ i = 0
    /\ out = <<>>
    /\ pc = "call"
    /\ status = -1
    /\ rands = NoDraws
    /\ board0 = prior

InitCall ==
    /\ pc = "call"
    /\ CallInit(argv[2])
    /\ UNCHANGED <<TESTING, argv, b1, b2, i, prior>>

SpecInit == InitCalls /\ [][InitCall]_vars

----------------------------------------------------------------------------
(* Vocabulary of the properties, written from the rules of the game and    *)
(* not from the code above                                                 *)

\* A name with its upper-case letters replaced by lower-case ones.
Fold(s) == [k \in 1 .. Len(s) |-> IF s[k] \in 65 .. 90 THEN s[k] + 32 ELSE s[k]]

FivePatterns == {STR_blinker, STR_toad, STR_beacon, STR_random, STR_test}

\* The board whose live cells are exactly `cells`.
BoardOf(cells) == [x \in Rows |-> [y \in Cols |-> IF <<x, y>> \in cells THEN ALIVE ELSE DEAD]]

BlinkerCells == {<<3, 4>>, <<4, 4>>, <<5, 4>>}
ToadCells == {<<3, 3>>, <<3, 4>>, <<3, 5>>, <<4, 2>>, <<4, 3>>, <<4, 4>>}
BeaconCells == {<<1, 5>>, <<1, 6>>, <<2, 5>>, <<2, 6>>, <<3, 3>>, <<3, 4>>, <<4, 3>>, <<4, 4>>}
TestCells == {<<0, 0>>, <<N - 1, 0>>, <<N - 1, 1>>}
BlockCells == {<<0, 0>>, <<0, 1>>, <<N - 1, 0>>, <<N - 1, 1>>}

\* The toroidal coordinate ((v mod N) + N) mod N, with the remainder of a
\* language whose remainder takes the sign of the dividend.
Wrap(v) == CRem(CRem(v, N) + N, N)

EightOffsets == ((-1 .. 1) \X (-1 .. 1)) \ {<<0, 0>>}

\* The number of offsets whose wrapped neighbour of (x, y) is ALIVE in b.
NeighborCount(b, x, y) ==
    Cardinality({d \in EightOffsets : b[Wrap(x + d[1])][Wrap(y + d[2])] = ALIVE})

\* The four-way rule: the next state of a cell in state c with n live
\* neighbours.
Rule(n, c) ==
    IF n < 2 THEN DEAD ELSE IF n = 2 THEN c ELSE IF n = 3 THEN ALIVE ELSE DEAD

\* One generation computed from a snapshot of board b.
Step(b) == [x \in Rows |-> [y \in Cols |-> Rule(NeighborCount(b, x, y), b[x][y])]]

\* The text of one rendered board: N lines of N glyphs and an empty line.
Glyphs(b) ==
    [k \in 1 .. (N + 1) |->
        IF k = N + 1 THEN <<>>
        ELSE [j \in 1 .. N |-> IF b[k - 1][j - 1] = ALIVE THEN 88 ELSE 46]]

\* A generation step of run() has just been taken.
IterStep == pc = "loop" /\ i' = i + 1

\* The pattern name main was given reads, letter case aside, as `name`.
ArgIs(name) == ~TESTING /\ Len(argv) >= 2 /\ Fold(argv[2]) = name

----------------------------------------------------------------------------
(* C1 *)

\* C1: in every generation step, every destination cell ends DEAD when the
\* source cell has fewer than 2 live neighbours, equal to the source cell
\* when it has 2, ALIVE when it has 3 and DEAD when it has more than 3,
\* whatever the destination buffer held before the step.
C1_FourWayRule ==
    [][IterStep =>
        \A x \in Rows, y \in Cols :
            LET n == NeighborCount(mem[b1], x, y)
                s == mem[b1][x][y]
                d == mem'[b2][x][y]
            IN  /\ (n < 2 => d = DEAD)
                /\ (n = 2 => d = s)
                /\ (n = 3 => d = ALIVE)
                /\ (n > 3 => d = DEAD)]_vars

\* After the second step (source mem[b2], destination mem[b1], which held
\* board0 before the step): all four branches occurred, the n = 2 branch on
\* a live and on a dead cell, and some destination cell changed its value.
C1_Witness ==
    /\ pc = "loop" /\ i = 2
    /\ \E x \in Rows, y \in Cols : NeighborCount(mem[b2], x, y) < 2 /\ mem[b2][x][y] = ALIVE
    /\ \E x \in Rows, y \in Cols : NeighborCount(mem[b2], x, y) = 2 /\ mem[b2][x][y] = ALIVE
    /\ \E x \in Rows, y \in Cols : NeighborCount(mem[b2], x, y) = 2 /\ mem[b2][x][y] = DEAD
    /\ \E x \in Rows, y \in Cols : NeighborCount(mem[b2], x, y) = 3 /\ mem[b2][x][y] = DEAD
    /\ \E x \in Rows, y \in Cols : NeighborCount(mem[b2], x, y) > 3 /\ mem[b2][x][y] = ALIVE
    /\ \E x \in Rows, y \in Cols : mem[b1][x][y] # board0[x][y]

----------------------------------------------------------------------------
(* C2 *)

\* C2: for both buffers and every cell, edge cells included, live_neighbors
\* returns the number of ALIVE cells among the 8 wrapped neighbours; each
\* coordinate it computes with one remainder equals the doubly wrapped
\* coordinate and lies in [0,N); the cell itself is not among the
\* neighbours; the result is in [0,8].
C2_ToroidalCount ==
    /\ \A v \in 0 .. (N - 1), k \in 0 .. 7 :
        /\ neighbor_r(v, k, N) = Wrap(v + offsets[k + 1].r)
        /\ neighbor_c(v, k, N) = Wrap(v + offsets[k + 1].c)
        /\ neighbor_r(v, k, N) \in Rows
        /\ neighbor_c(v, k, N) \in Cols
    /\ \A x \in Rows, y \in Cols, k \in 0 .. 7 :
        <<neighbor_r(x, k, N), neighbor_c(y, k, N)>> # <<x, y>>
    /\ \A b \in Buffers, x \in Rows, y \in Cols :
        LET n == live_neighbors(mem[b], x, y, N, N)
        IN  n = NeighborCount(mem[b], x, y) /\ n \in 0 .. 8

\* A step was computed from a board whose only live cell is (N-1, N-1):
\* cell (0,0) sees it across both edges, cell (N-1, N-1) does not count
\* itself.
C2_Witness ==
    /\ pc = "loop" /\ i = 1
    /\ mem[b2] = BoardOf({<<N - 1, N - 1>>})
    /\ live_neighbors(mem[b2], 0, 0, N, N) = 1
    /\ live_neighbors(mem[b2], N - 1, N - 1, N, N) = 0

----------------------------------------------------------------------------
(* C3 *)

\* C3: in each generation step of run the source and the destination are
\* the two different buffers, current_board being the source of the first
\* and third step and next_board of the second; the step leaves the source
\* buffer unchanged and the destination ends as one generation of the
\* source as it was before the step.
C3_DistinctBuffers ==
    [][IterStep =>
        /\ b1 # b2
        /\ b1 = (IF i % 2 = 0 THEN "current_board" ELSE "next_board")
        /\ b2 = (IF i % 2 = 0 THEN "next_board" ELSE "current_board")
        /\ mem'[b1] = mem[b1]
        /\ mem'[b2] = Step(mem[b1])]_vars

\* All three steps were taken and the last one changed the board.
C3_Witness ==
    /\ pc = "done" /\ i = N_STEPS
    /\ b1 = "next_board" /\ b2 = "current_board"
    /\ mem[b1] # mem[b2]
    /\ mem[b1] = Step(mem[b2])

----------------------------------------------------------------------------
(* C4 *)

\* What a runner prints that keeps one current board and copies the
\* destination back into it after each of its N_STEPS steps.
RECURSIVE CopyRunFrom(_, _, _)
CopyRunFrom(m, printed, steps) ==
    IF steps >= N_STEPS THEN printed
    ELSE LET stepped == generation(m, "current_board", "next_board")
             copied == [stepped EXCEPT !["current_board"] = stepped["next_board"]]
         IN  CopyRunFrom(copied, printed \o Glyphs(stepped["next_board"]), steps + 1)

CopyRun(b) ==
    CopyRunFrom([k \in Buffers |-> IF k = "current_board" THEN b ELSE ZeroBoard], Glyphs(b), 0)

\* The N x N boards of DEAD and ALIVE cells.
Boards == [Rows -> [Cols -> {DEAD, ALIVE}]]

\* C4: while run loops it has printed one board more than it has taken
\* steps; when it has returned it has taken exactly three steps and printed
\* exactly the initial board followed by its first, second and third
\* generation (each a board of DEAD and ALIVE cells), which is also what
\* the copying runner prints.
C4_FourRenders ==
    /\ pc = "loop" => Len(out) = (i + 1) * (N + 1)
    /\ pc = "done" =>
        LET g1 == Step(board0)
            g2 == Step(g1)
            g3 == Step(g2)
        IN  /\ i = 3
            /\ g1 \in Boards /\ g2 \in Boards /\ g3 \in Boards
            /\ out = Glyphs(board0) \o Glyphs(g1) \o Glyphs(g2) \o Glyphs(g3)
            /\ out = CopyRun(board0)

\* run has returned after printing four boards of which no two consecutive
\* ones are equal.
C4_Witness ==
    /\ pc = "done" /\ status = 0
    /\ Len(out) = 4 * (N + 1)
    /\ LET g1 == Step(board0)
           g2 == Step(g1)
           g3 == Step(g2)
       IN  /\ g1 \in Boards /\ g2 \in Boards /\ g3 \in Boards
           /\ g1 # board0 /\ g2 # g1 /\ g3 # g2 /\ mem[b1] = g3

----------------------------------------------------------------------------
(* C5 *)

\* C5: started with blinker, toad or beacon, the board after one generation
\* differs from the initial board and the board after two generations is
\* the initial board.
C5_PeriodTwo ==
    \A name \in {STR_blinker, STR_toad, STR_beacon} :
        (ArgIs(name) /\ pc \in {"loop", "done"}) =>
            /\ i = 0 => mem[b1] = board0
            /\ i = 1 => mem[b1] # board0
            /\ i = 2 => mem[b1] = board0

\* Started as "Toad", two steps have brought the initial board back after a
\* first step that changed it.
C5_Witness ==
    /\ ArgIs(STR_toad) /\ argv[2] = <<84, 111, 97, 100>>
    /\ pc = "loop" /\ i = 2
    /\ board0 = BoardOf(ToadCells) /\ mem[b1] = board0 /\ mem[b2] # board0

----------------------------------------------------------------------------
(* C6 *)

\* C6: once main has called init with a name that is, letter case aside,
\* none of blinker, toad, beacon, random and test, the process has exited
\* with status 1, the unknown-pattern message is all it has printed (no
\* board was rendered), and both buffers are as they were before the call.
C6_UnknownPattern ==
    (~TESTING /\ Len(argv) >= 2 /\ Fold(argv[2]) \notin FivePatterns /\ pc # "main") =>
        /\ pc = "exit"
        /\ status = 1
        /\ out = <<STR_unknown \o argv[2]>>
        /\ mem["current_board"] = prior
        /\ mem["next_board"] = ZeroBoard

\* init was called with "nonsense" and the process has exited.
C6_Witness ==
    /\ ~TESTING /\ Len(argv) >= 2
    /\ argv[2] = <<110, 111, 110, 115, 101, 110, 115, 101>>
    /\ pc = "exit" /\ status = 1

----------------------------------------------------------------------------
(* C7 *)

\* C7 as stated: once init has been called with a name that reads "test" in
\* any letter case, it has not failed and current_board has live cells
\* exactly at (0,0), (N-1,0) and (N-1,1).
C7_TestRecognized ==
    (Fold(argv[2]) = STR_test /\ pc # "call") =>
        /\ pc = "run" /\ status # 1
        /\ mem["current_board"] = BoardOf(TestCells)

\* C7 amended: in a build that defines TESTING, init called with a name that
\* reads "test" in any letter case does not fail and leaves current_board
\* with live cells exactly at (0,0), (N-1,0) and (N-1,1); in a build that
\* does not define TESTING the same call prints the unknown-pattern message
\* and exits with status 1, current_board unchanged.
C7_TestRecognizedWhenTesting ==
    (Fold(argv[2]) = STR_test /\ pc # "call") =>
        IF TESTING
        THEN /\ pc = "run" /\ status # 1
             /\ mem["current_board"] = BoardOf(TestCells)
        ELSE /\ pc = "exit" /\ status = 1
             /\ out = <<STR_unknown \o argv[2]>>
             /\ mem["current_board"] = prior

\* In a TESTING build init("TeSt") has returned over a board that held the
\* beacon.
C7_Witness ==
    /\ TESTING /\ argv[2] = <<84, 101, 83, 116>>
    /\ prior = BoardOf(BeaconCells)
    /\ pc = "run" /\ mem["current_board"] = BoardOf(TestCells)

----------------------------------------------------------------------------
(* C8 *)

\* C8: in the build whose main starts the test pattern, the initial board
\* has live cells exactly at (0,0), (N-1,0) and (N-1,1), the boards after
\* one, two and three generations all have live cells exactly at (0,0),
\* (0,1), (N-1,0) and (N-1,1), and these four boards are what run prints.
C8_TestGolden ==
    (TESTING /\ pc \in {"loop", "done"}) =>
        /\ board0 = BoardOf(TestCells)
        /\ i = 0 => mem[b1] = BoardOf(TestCells)
        /\ i >= 1 => mem[b1] = BoardOf(BlockCells)
        /\ pc = "done" =>
            out = Glyphs(BoardOf(TestCells)) \o Glyphs(BoardOf(BlockCells))
                    \o Glyphs(BoardOf(BlockCells)) \o Glyphs(BoardOf(BlockCells))

\* The test build has run its three generations.
C8_Witness ==
    /\ TESTING /\ pc = "done" /\ i = 3
    /\ board0 = BoardOf(TestCells)
    /\ mem[b1] = BoardOf(BlockCells) /\ mem[b2] = BoardOf(BlockCells)

----------------------------------------------------------------------------
(* C9 *)

\* C9: when init has returned, whatever current_board held before the call,
\* a fixed pattern's board is exactly its listed live cells with all other
\* cells dead, and in a random board every cell is the parity of the result
\* of its own call of rand(), the (x * N + y)-th: ALIVE where it was odd,
\* DEAD where it was even. next_board is not touched.
C9_FullOverwrite ==
    pc = "run" =>
        LET cb == mem["current_board"]
            name == Fold(argv[2])
        IN  /\ name = STR_blinker => cb = BoardOf(BlinkerCells)
            /\ name = STR_toad => cb = BoardOf(ToadCells)
            /\ name = STR_beacon => cb = BoardOf(BeaconCells)
            /\ name = STR_test => cb = BoardOf(TestCells)
            /\ name = STR_random =>
                \A x \in Rows, y \in Cols :
                    cb[x][y] = (IF rands[x * N + y] % 2 = 1 THEN ALIVE ELSE DEAD)
            /\ name \in FivePatterns
            /\ mem["next_board"] = ZeroBoard

\* The blinker was set up over a board that held the beacon.
C9_Witness ==
    /\ pc = "run" /\ Fold(argv[2]) = STR_blinker
    /\ prior = BoardOf(BeaconCells)
    /\ mem["current_board"] = BoardOf(BlinkerCells)

----------------------------------------------------------------------------
(* C10 *)

\* C10: in every state of the program both buffers are N x N boards whose
\* cells are all DEAD or ALIVE.
C10_CellsBinary ==
    \A b \in Buffers :
        /\ DOMAIN mem[b] = Rows
        /\ \A x \in Rows :
            /\ DOMAIN mem[b][x] = Cols
            /\ \A y \in Cols : mem[b][x][y] \in {DEAD, ALIVE}

\* A random start has run its three generations and both buffers hold live
\* and dead cells.
C10_Witness ==
    /\ ArgIs(STR_random) /\ pc = "done"
    /\ \A b \in Buffers :
        /\ \E x \in Rows, y \in Cols : mem[b][x][y] = ALIVE
        /\ \E x \in Rows, y \in Cols : mem[b][x][y] = DEAD

====
